---- MODULE Spec2Model ----
(***************************************************************************)
(* DlroverRendezvousBackend (dlrover/python/elastic_agent/torch/           *)
(* rdzv_backend.py): get_state / set_state over the job master's            *)
(* rendezvous-state entry, with a compare-and-swap token.                   *)
(*                                                                         *)
(* Several callers (worker processes) each own a backend bound to the same  *)
(* key.  A call is split at its remote calls: everything a call does        *)
(* locally between two remote calls is one step, a remote call and the      *)
(* handling of its reply (or of its transport failure) is one step.  The    *)
(* master's entry is read and replaced atomically by the master.            *)
(*                                                                         *)
(* Spec is the backend under arbitrary callers and transport failures;      *)
(* SpecKeys adds the construction of the backends and the master's entries  *)
(* by key; SpecRetry is the callers' retry pattern under weak fairness.     *)
(***************************************************************************)
EXTENDS Integers, Sequences, FiniteSets, TLC

\* ------------------------------------------------------------------ bounds
NumCallers == 2      \* worker processes sharing the key
MaxCalls   == 2      \* set_state invocations in one behaviour
MaxTok     == 1      \* largest integer token a caller presents

Callers == 1..NumCallers

\* ------------------------------------------------------- pickle (bytes)
\* Bytes are sequences of naturals.  A pickled object starts with a tag.
TagStr == 0
TagObj == 1

SeqMax(S) == CHOOSE x \in S : \A y \in S : y <= x

RECURSIVE SortedSeq(_)
SortedSeq(S) ==
  IF S = {} THEN <<>>
  ELSE LET m == SeqMax(S) IN Append(SortedSeq(S \ {m}), m)

SeqRange(s) == { s[i] : i \in 1..Len(s) }

\* RendezvousState.__init__: round 0, not complete, not closed, no nodes.
\* participants is the sequence of nodes by rank; wait_list is a set of nodes.
RendezvousState ==
  [round |-> 0, closed |-> FALSE, participants |-> <<>>, wait_list |-> {}]

\* pickle.dumps of a str (a sequence of character codes)
pickle_dumps_str(s) == <<TagStr, Len(s)>> \o s

\* pickle.dumps of a RendezvousState
pickle_dumps(st) ==
  <<TagObj, st.round, IF st.closed THEN 1 ELSE 0, Len(st.participants)>>
    \o st.participants
    \o <<Cardinality(st.wait_list)>>
    \o SortedSeq(st.wait_list)

\* pickle.loads: [kind |-> "str" | "state" | "error", str, st]
pickle_loads(b) ==
  LET bad == [kind |-> "error", str |-> <<>>, st |-> RendezvousState] IN
  IF Len(b) < 2 THEN bad
  ELSE IF b[1] = TagStr
    THEN IF Len(b) = 2 + b[2]
           THEN [kind |-> "str", str |-> SubSeq(b, 3, Len(b)), st |-> RendezvousState]
           ELSE bad
  ELSE IF b[1] = TagObj
    THEN IF Len(b) >= 5 /\ b[3] \in {0, 1} /\ Len(b) >= 5 + b[4]
            /\ Len(b) = 5 + b[4] + b[5 + b[4]]
           THEN [kind |-> "state", str |-> <<>>,
                 st |-> [round        |-> b[2],
                         closed       |-> (b[3] = 1),
                         participants |-> SubSeq(b, 5, 4 + b[4]),
                         wait_list    |-> SeqRange(SubSeq(b, 6 + b[4], Len(b)))]]
           ELSE bad
  ELSE bad

\* pickle.dumps(""): the value the master holds for a key nobody has written
EmptyMarker == pickle_dumps_str(<<>>)


\* ------------------------------------------------------------- tokens
\* A token argument of set_state: None, an int, or a str (character codes;
\* 0..9 are the digits, anything above is a non-digit character).
NoneToken   == [kind |-> "none", ival |-> 0, sval |-> <<>>]
IntToken(n) == [kind |-> "int",  ival |-> n, sval |-> <<>>]
StrToken(s) == [kind |-> "str",  ival |-> 0, sval |-> s]

\* Mutant: `if token is not None:` in place of `if token:`.
truthy_not_none(token) == token.kind # "none"

\* Python truthiness of a token (`if token:`)
truthy(token) ==
  \/ token.kind = "int" /\ token.ival # 0
  \/ token.kind = "str" /\ token.sval # <<>>

RECURSIVE DigitsValue(_)
DigitsValue(s) ==
  IF s = <<>> THEN 0
  ELSE 10 * DigitsValue(SubSeq(s, 1, Len(s) - 1)) + s[Len(s)]

\* int(token): [ok |-> FALSE] stands for ValueError
int(token) ==
  IF token.kind = "int" THEN [ok |-> TRUE, val |-> token.ival]
  ELSE IF token.sval # <<>> /\ \A i \in 1..Len(token.sval) : token.sval[i] \in 0..9
    THEN [ok |-> TRUE, val |-> DigitsValue(token.sval)]
    ELSE [ok |-> FALSE, val |-> 0]

\* ------------------------------------------------------------- inputs
\* Serialized states callers write, and the empty marker (a pickled str, which
\* has no participants).
SampleStates ==
  { RendezvousState,
    [round |-> 1, closed |-> TRUE, participants |-> <<2, 1>>, wait_list |-> {3}] }

Payloads == { pickle_dumps(st) : st \in SampleStates } \cup {EmptyMarker}

\* "", "x" and "1"
Tokens ==
  {NoneToken} \cup { IntToken(n) : n \in 0..MaxTok }
              \cup { StrToken(s) : s \in {<<>>, <<10>>, <<1>>} }

\* ------------------------------------------------------------- results
\* What a call hands back to its caller.
Pending == [kind |-> "pending", state |-> <<>>, token |-> -1, succeeded |-> FALSE]
None    == [kind |-> "None",    state |-> <<>>, token |-> -1, succeeded |-> FALSE]
RendezvousConnectionError ==
  [kind |-> "RendezvousConnectionError", state |-> <<>>, token |-> -1, succeeded |-> FALSE]
\* any exception that is not a RendezvousConnectionError
Exception ==
  [kind |-> "Exception", state |-> <<>>, token |-> -1, succeeded |-> FALSE]
Pair(bits, token) ==
  [kind |-> "pair", state |-> bits, token |-> token, succeeded |-> FALSE]
Triple(bits, token, succeed) ==
  [kind |-> "triple", state |-> bits, token |-> token, succeeded |-> succeed]

VARIABLES
  svcVal,    \* the master's value for the key
  svcToken,  \* the master's token for the key
  pc,        \* pc[c]: where caller c's current call stands
  op,        \* op[c]: the call caller c made last (name, state, token)
  loc,       \* loc[c]: set_state's locals (token, participant_num, wait_num)
  res,       \* res[c]: what caller c's last call returned or raised
  calls,     \* number of set_state calls made so far
  log,       \* history: the values of the writes the master accepted, in order
  h,         \* history of caller c's current (or last) call
  backend,   \* backend[c]: what constructing caller c's backend gave
  store      \* the master's entries by key: the accepted writes, in order

vars == <<svcVal, svcToken, pc, op, loc, res, calls, log, h, backend, store>>

\* --------------------------------------------------------- construction
\* Strings are sequences of character codes.  The key prefix create_backend
\* passes, "torch.elastic.rendezvous." (abbreviated to two characters).
KeyPrefix == <<7, 8>>

\* The run id every caller of Spec was launched with.
JobRunId == <<1>>

\* No backend constructed yet.
NoBackend == [status |-> "none", key |-> <<>>, run_id |-> <<>>, key_prefix |-> <<>>]

\* Mutant: the key is the run id followed by the prefix.
DlroverRendezvousBackend_suffixed(run_id, key_prefix) ==
  IF run_id = <<>>
    THEN [status |-> "ValueError", key |-> <<>>,
          run_id |-> run_id, key_prefix |-> key_prefix]
    ELSE [status |-> "built", key |-> run_id \o key_prefix,
          run_id |-> run_id, key_prefix |-> key_prefix]

\* DlroverRendezvousBackend.__init__(run_id, key_prefix): `if not run_id:
\* raise ValueError`, else self._key = key_prefix + run_id.  run_id and
\* key_prefix record the arguments.
DlroverRendezvousBackend(run_id, key_prefix) ==
  IF run_id = <<>>
    THEN [status |-> "ValueError", key |-> <<>>,
          run_id |-> run_id, key_prefix |-> key_prefix]
    ELSE [status |-> "built", key |-> key_prefix \o run_id,
          run_id |-> run_id, key_prefix |-> key_prefix]

NoOp    == [name |-> "none", state |-> <<>>, token |-> NoneToken]
NoLoc   == [token |-> 0, participant_num |-> 0, wait_num |-> 0]
\* nCas / nRead: remote calls issued by the call; readAt: number of writes
\* the master had accepted when it served the call's read; applied: the
\* master accepted this call's write; failed: the remote call that failed in
\* transport; sent: what the compare-and-swap sent.
NoHist  ==
  [nCas |-> 0, nRead |-> 0, readAt |-> -1,
   applied |-> FALSE, failed |-> "none",
   sent |-> [state |-> <<>>, token |-> -1, participant_num |-> -1, wait_num |-> -1]]

\* A key nobody has written: the master answers the empty marker, and the
\* token that the "no token" write (token 0) is checked against.
MasterInit ==
  /\ svcVal = EmptyMarker
  /\ svcToken = 0

Init ==
  /\ MasterInit
  /\ pc = [c \in Callers |-> "idle"]
  /\ op = [c \in Callers |-> NoOp]
  /\ loc = [c \in Callers |-> NoLoc]
  /\ res = [c \in Callers |-> Pending]
  /\ calls = 0
  /\ log = <<>>
  /\ h = [c \in Callers |-> NoHist]
  /\ backend = [c \in Callers |-> DlroverRendezvousBackend(JobRunId, KeyPrefix)]
  /\ store = <<>>

\* -------------------------------------------------- the master's entry
\* MasterClient.get_rdzv_state(key) -> (value, token)
get_rdzv_state == <<svcVal, svcToken>>

\* MasterClient.set_rdzv_state(key, state, token, participant_num, wait_num):
\* replaces the value iff token is the key's current token, atomically;
\* <<value', token', succeed>>
set_rdzv_state(state, token, participant_num, wait_num) ==
  IF token = svcToken
    THEN <<state, svcToken + 1, TRUE>>
    ELSE <<svcVal, svcToken, FALSE>>

\* Callers are interchangeable: caller c makes its first call only after
\* caller c - 1 has made one.
MayCall(c) ==
  /\ pc[c] = "idle"
  /\ c > 1 => op[c - 1].name # "none"

\* ------------------------------------------------------------ get_state
\* Mutant: get_state answers from a copy of the first state it ever saw.
get_state_return_cached(result) ==
  IF log # <<>> THEN Pair(log[1], 1)
  ELSE IF result[1] = EmptyMarker THEN None
  ELSE Pair(result[1], result[2])

\* get_state, after the remote read replied with result = <<value, token>>
get_state_return(result) ==
  LET new_state_bits == result[1]
      token == result[2] IN
  IF new_state_bits = EmptyMarker THEN None
  ELSE IF pickle_loads(new_state_bits).kind = "error" THEN Exception
  ELSE Pair(new_state_bits, token)

\* Mutant: a failed read is reported as "no state".
get_state_except_none == None

\* get_state, when the remote read raised grpc.RpcError
get_state_except == RendezvousConnectionError

\* get_state() up to its remote read: nothing happens before it.
get_state_enter(c) ==
  /\ pc' = [pc EXCEPT ![c] = "get_rpc"]
  /\ op' = [op EXCEPT ![c] = [name |-> "get_state", state |-> <<>>, token |-> NoneToken]]
  /\ loc' = [loc EXCEPT ![c] = NoLoc]
  /\ res' = [res EXCEPT ![c] = Pending]
  /\ h' = [h EXCEPT ![c] = NoHist]
  /\ UNCHANGED <<svcVal, svcToken, log, backend, store>>

\* A caller calls get_state().
get_state_call(c) ==
  /\ MayCall(c)
  /\ calls' = calls
  /\ get_state_enter(c)

\* The remote read of get_state replies.
get_state_rpc(c) ==
  /\ pc[c] = "get_rpc"
  /\ res' = [res EXCEPT ![c] = get_state_return(get_rdzv_state)]
  /\ pc' = [pc EXCEPT ![c] = "idle"]
  /\ h' = [h EXCEPT ![c].nRead = @ + 1, ![c].readAt = Len(log)]
  /\ UNCHANGED <<svcVal, svcToken, op, loc, calls, log, backend, store>>

\* The remote read of get_state fails in transport.
get_state_rpc_fail(c) ==
  /\ pc[c] = "get_rpc"
  /\ res' = [res EXCEPT ![c] = get_state_except]
  /\ pc' = [pc EXCEPT ![c] = "idle"]
  /\ h' = [h EXCEPT ![c].nRead = @ + 1, ![c].failed = "read"]
  /\ UNCHANGED <<svcVal, svcToken, op, loc, calls, log, backend, store>>

\* ------------------------------------------------------------ set_state
\* Mutant: the inner get_state() unpacks its result without the None check.
inner_get_state_unchecked(result) ==
  IF result.kind = "pair" THEN Triple(result.state, result.token, FALSE)
  ELSE IF result.kind = "None" THEN Exception
  ELSE result

\* Mutant: the inner get_state() hands back the token before the one read.
inner_get_state_previous_token(result) ==
  IF result.kind = "pair" THEN Triple(result.state, result.token - 1, FALSE)
  ELSE result

\* Mutant: the inner get_state() appends True.
inner_get_state_succeeded(result) ==
  IF result.kind = "pair" THEN Triple(result.state, result.token, TRUE)
  ELSE result

\* The inner get_state() of set_state: a result of self.get_state() with
\* False appended, None kept, an exception passed on.
inner_get_state(result) ==
  IF result.kind = "pair" THEN Triple(result.state, result.token, FALSE)
  ELSE result

\* Mutant: a token that is no integer is taken for "no token".
parse_token_lenient(token) ==
  IF truthy(token) /\ int(token).ok THEN int(token) ELSE [ok |-> TRUE, val |-> 0]

\* `if token: token = int(token) ... else: token = 0`;
\* [ok |-> FALSE] is the ValueError branch
parse_token(token) ==
  IF truthy(token) THEN int(token) ELSE [ok |-> TRUE, val |-> 0]

\* Mutant: both summaries count the participants.
summaries_participants_twice(state) ==
  LET rdzv_state == pickle_loads(state) IN
  IF rdzv_state.kind = "state"
    THEN [ok |-> TRUE,
          participant_num |-> Len(rdzv_state.st.participants),
          wait_num        |-> Len(rdzv_state.st.participants)]
    ELSE [ok |-> FALSE, participant_num |-> 0, wait_num |-> 0]

\* Mutant: what was loaded is not required to have participants and wait_list.
summaries_unchecked(state) ==
  LET rdzv_state == pickle_loads(state) IN
  IF rdzv_state.kind = "state"
    THEN [ok |-> TRUE,
          participant_num |-> Len(rdzv_state.st.participants),
          wait_num        |-> Cardinality(rdzv_state.st.wait_list)]
    ELSE [ok |-> rdzv_state.kind # "error", participant_num |-> 0, wait_num |-> 0]

\* rdzv_state = pickle.loads(state); len(rdzv_state.participants);
\* len(rdzv_state.wait_list).  [ok |-> FALSE]: the load, or the attribute
\* access on what was loaded, raised.
summaries(state) ==
  LET rdzv_state == pickle_loads(state) IN
  IF rdzv_state.kind = "state"
    THEN [ok |-> TRUE,
          participant_num |-> Len(rdzv_state.st.participants),
          wait_num        |-> Cardinality(rdzv_state.st.wait_list)]
    ELSE [ok |-> FALSE, participant_num |-> 0, wait_num |-> 0]

\* `return state, token, succeed` after an accepted write
set_state_return(state, token, succeed) == Triple(state, token, succeed)

\* Mutant: the state is read back after every write, accepted or not.
reads_after_always(succeed) == TRUE

\* Mutant: no follow-up read after a rejected write.
reads_after_never(succeed) == FALSE

\* `if not succeed: return get_state()`: whether the follow-up read is made
reads_after(succeed) == ~succeed

\* Mutant: a failed write is reported as a conflict.
set_state_except_conflict == inner_get_state(get_state_return(get_rdzv_state))

\* set_state, when set_rdzv_state raised grpc.RpcError
set_state_except == RendezvousConnectionError

\* set_state(state, token) up to its first remote call: the token is parsed
\* and the summaries are taken.
set_state_enter(c, state, token) ==
  /\ op' = [op EXCEPT ![c] = [name |-> "set_state", state |-> state, token |-> token]]
  /\ h' = [h EXCEPT ![c] = NoHist]
  /\ LET t == parse_token(token)
         s == summaries(state) IN
       IF ~t.ok
         THEN /\ pc' = [pc EXCEPT ![c] = "read_rpc"]
              /\ loc' = [loc EXCEPT ![c] = NoLoc]
              /\ res' = [res EXCEPT ![c] = Pending]
       ELSE IF ~s.ok
         THEN /\ pc' = [pc EXCEPT ![c] = "idle"]
              /\ loc' = [loc EXCEPT ![c] = [NoLoc EXCEPT !.token = t.val]]
              /\ res' = [res EXCEPT ![c] = Exception]
       ELSE   /\ pc' = [pc EXCEPT ![c] = "cas_rpc"]
              /\ loc' = [loc EXCEPT ![c] = [token |-> t.val,
                                            participant_num |-> s.participant_num,
                                            wait_num |-> s.wait_num]]
              /\ res' = [res EXCEPT ![c] = Pending]
  /\ UNCHANGED <<svcVal, svcToken, log, backend, store>>

\* A caller calls set_state(state, token).
set_state_call(c, state, token) ==
  /\ MayCall(c)
  /\ calls < MaxCalls
  /\ calls' = calls + 1
  /\ set_state_enter(c, state, token)

\* Mutant: token and participant_num change places in the call.
cas_args_swapped(c) ==
  [state |-> op[c].state, token |-> loc[c].participant_num,
   participant_num |-> loc[c].token, wait_num |-> loc[c].wait_num]

\* Mutant: the caller's token is not passed on.
cas_args_no_token(c) ==
  [state |-> op[c].state, token |-> 0,
   participant_num |-> loc[c].participant_num, wait_num |-> loc[c].wait_num]

\* Mutant: the write is sent with the key's latest token.
cas_args_current_token(c) ==
  [state |-> op[c].state, token |-> svcToken,
   participant_num |-> loc[c].participant_num, wait_num |-> loc[c].wait_num]

\* The arguments of self._client.set_rdzv_state(self._key, state, token,
\* participant_num, wait_num)
cas_args(c) ==
  [state |-> op[c].state, token |-> loc[c].token,
   participant_num |-> loc[c].participant_num, wait_num |-> loc[c].wait_num]

\* What the master answers to the compare-and-swap of caller c.
CasReply(c) ==
  LET a == cas_args(c) IN
  set_rdzv_state(a.state, a.token, a.participant_num, a.wait_num)

MasterApplies(c, reply) ==
  /\ svcVal' = reply[1]
  /\ svcToken' = reply[2]
  /\ log' = IF reply[3] THEN Append(log, reply[1]) ELSE log

\* What set_state hands back when the rest of caller c's call, from its
\* compare-and-swap on, runs with no step of another caller in between.
set_state_alone(c) ==
  LET reply == CasReply(c)
      succeed == reply[3] IN
  IF reads_after(succeed)
    THEN inner_get_state(get_state_return(<<reply[1], reply[2]>>))
    ELSE set_state_return(op[c].state, loc[c].token, succeed)

\* The compare-and-swap replies: accepted -> return; rejected -> read next.
set_state_cas(c) ==
  /\ pc[c] = "cas_rpc"
  /\ LET reply == CasReply(c)
         succeed == reply[3] IN
       /\ MasterApplies(c, reply)
       /\ h' = [h EXCEPT ![c].nCas = @ + 1,
                         ![c].applied = succeed, ![c].sent = cas_args(c)]
       /\ IF reads_after(succeed)
            THEN /\ pc' = [pc EXCEPT ![c] = "read_rpc"]
                 /\ res' = res
            ELSE /\ pc' = [pc EXCEPT ![c] = "idle"]
                 /\ res' = [res EXCEPT ![c] =
                              set_state_return(op[c].state, loc[c].token, succeed)]
  /\ UNCHANGED <<op, loc, calls, backend, store>>

\* The compare-and-swap fails in transport before it reaches the master.
set_state_cas_fail(c) ==
  /\ pc[c] = "cas_rpc"
  /\ res' = [res EXCEPT ![c] = set_state_except]
  /\ pc' = [pc EXCEPT ![c] = "idle"]
  /\ h' = [h EXCEPT ![c].nCas = @ + 1, ![c].failed = "cas", ![c].sent = cas_args(c)]
  /\ UNCHANGED <<svcVal, svcToken, op, loc, calls, log, backend, store>>

\* The compare-and-swap reaches the master, its reply is lost in transport.
set_state_cas_lost(c) ==
  /\ pc[c] = "cas_rpc"
  /\ LET reply == CasReply(c) IN
       /\ MasterApplies(c, reply)
       /\ h' = [h EXCEPT ![c].nCas = @ + 1, ![c].failed = "cas",
                         ![c].applied = reply[3], ![c].sent = cas_args(c)]
  /\ res' = [res EXCEPT ![c] = set_state_except]
  /\ pc' = [pc EXCEPT ![c] = "idle"]
  /\ UNCHANGED <<op, loc, calls, backend, store>>

\* The read of set_state's inner get_state() replies.
set_state_read(c) ==
  /\ pc[c] = "read_rpc"
  /\ res' = [res EXCEPT ![c] = inner_get_state(get_state_return(get_rdzv_state))]
  /\ pc' = [pc EXCEPT ![c] = "idle"]
  /\ h' = [h EXCEPT ![c].nRead = @ + 1, ![c].readAt = Len(log)]
  /\ UNCHANGED <<svcVal, svcToken, op, loc, calls, log, backend, store>>

\* The read of set_state's inner get_state() fails in transport.
set_state_read_fail(c) ==
  /\ pc[c] = "read_rpc"
  /\ res' = [res EXCEPT ![c] = inner_get_state(get_state_except)]
  /\ pc' = [pc EXCEPT ![c] = "idle"]
  /\ h' = [h EXCEPT ![c].nRead = @ + 1, ![c].failed = "read"]
  /\ UNCHANGED <<svcVal, svcToken, op, loc, calls, log, backend, store>>

Next ==
  \E c \in Callers :
    \/ get_state_call(c)
    \/ get_state_rpc(c)
    \/ get_state_rpc_fail(c)
    \/ \E state \in Payloads, token \in Tokens : set_state_call(c, state, token)
    \/ set_state_cas(c)
    \/ set_state_cas_fail(c)
    \/ set_state_cas_lost(c)
    \/ set_state_read(c)
    \/ set_state_read_fail(c)

Spec == Init /\ [][Next]_vars

TypeOK ==
  /\ svcToken = Len(log)
  /\ calls \in 0..MaxCalls

\* ============================================== construction and keys
\* A second specification: every caller constructs its own backend, and the
\* master keeps one entry per key.  A call is a single step here: no
\* transport failure, and nothing happens between its remote calls.
RunIds     == {<<>>, <<1>>, <<8, 1>>}
Prefixes   == {KeyPrefix, <<7>>}
KeyTokens  == {NoneToken, IntToken(MaxTok)}
KeyPayloads == { pickle_dumps(st) : st \in SampleStates }

InitKeys ==
  /\ MasterInit
  /\ pc = [c \in Callers |-> "idle"]
  /\ op = [c \in Callers |-> NoOp]
  /\ loc = [c \in Callers |-> NoLoc]
  /\ res = [c \in Callers |-> Pending]
  /\ calls = 0
  /\ log = <<>>
  /\ h = [c \in Callers |-> NoHist]
  /\ backend = [c \in Callers |-> NoBackend]
  /\ store = <<>>

\* The writes the master has accepted for `key`, in order ([state, by]).
key_writes(key) == IF key \in DOMAIN store THEN store[key] ELSE <<>>

\* MasterClient.get_rdzv_state(key) -> (value, token)
key_get_rdzv_state(key) ==
  LET w == key_writes(key) IN
  <<IF w = <<>> THEN EmptyMarker ELSE w[Len(w)].state, Len(w)>>

\* MasterClient.set_rdzv_state(key, ...): whether the write is accepted
key_set_rdzv_state(key, state, token, participant_num, wait_num) ==
  token = Len(key_writes(key))

\* Backends are constructed in the order of the callers.
MayConstruct(c) ==
  /\ backend[c].status = "none"
  /\ c > 1 => backend[c - 1].status # "none"

\* DlroverRendezvousBackend(run_id, key_prefix)
backend_init(c, run_id, key_prefix) ==
  /\ MayConstruct(c)
  /\ backend' = [backend EXCEPT ![c] = DlroverRendezvousBackend(run_id, key_prefix)]
  /\ UNCHANGED <<svcVal, svcToken, pc, op, loc, res, calls, log, h, store>>

\* create_backend(params): DlroverRendezvousBackend(params.run_id,
\* key_prefix="torch.elastic.rendezvous.")
create_backend(c, run_id) ==
  /\ MayConstruct(c)
  /\ backend' = [backend EXCEPT ![c] = DlroverRendezvousBackend(run_id, KeyPrefix)]
  /\ UNCHANGED <<svcVal, svcToken, pc, op, loc, res, calls, log, h, store>>

\* backend.get_state() on self._key
key_get_state(c) ==
  /\ backend[c].status = "built"
  /\ res' = [res EXCEPT ![c] =
               get_state_return(key_get_rdzv_state(backend[c].key))]
  /\ UNCHANGED <<svcVal, svcToken, pc, op, loc, calls, log, h, backend, store>>

\* backend.set_state(state, token) on self._key
key_set_state(c, state, token) ==
  /\ backend[c].status = "built"
  /\ calls < MaxCalls
  /\ calls' = calls + 1
  /\ LET key == backend[c].key
         t == parse_token(token)
         s == summaries(state) IN
       IF ~t.ok
         THEN /\ res' = [res EXCEPT ![c] =
                           inner_get_state(get_state_return(key_get_rdzv_state(key)))]
              /\ store' = store
       ELSE IF ~s.ok
         THEN /\ res' = [res EXCEPT ![c] = Exception]
              /\ store' = store
       ELSE LET succeed == key_set_rdzv_state(key, state, t.val,
                                              s.participant_num, s.wait_num) IN
            IF reads_after(succeed)
              THEN /\ res' = [res EXCEPT ![c] =
                                inner_get_state(get_state_return(key_get_rdzv_state(key)))]
                   /\ store' = store
              ELSE /\ res' = [res EXCEPT ![c] = set_state_return(state, t.val, succeed)]
                   /\ store' = (key :> Append(key_writes(key),
                                              [state |-> state, by |-> c])) @@ store
  /\ UNCHANGED <<svcVal, svcToken, pc, op, loc, log, h, backend>>

NextKeys ==
  \E c \in Callers :
    \/ \E run_id \in RunIds, key_prefix \in Prefixes : backend_init(c, run_id, key_prefix)
    \/ \E run_id \in RunIds : create_backend(c, run_id)
    \/ key_get_state(c)
    \/ \E state \in KeyPayloads, token \in KeyTokens : key_set_state(c, state, token)

SpecKeys == InitKeys /\ [][NextKeys]_vars

\* ===================================================== the retry pattern
\* A third specification: writers that each want to commit one write.  A
\* writer may first call get_state; it calls set_state with the token of its
\* last result (no token when it has none), and after a succeeded = false
\* result calls set_state again with the token of that result.  No remote
\* call fails in transport.  One writer more than Spec has callers, for
\* a token that was handed out to be rejected takes three writers.
RetryWriters == 1..(NumCallers + 1)

\* The state writer c wants to commit.
RetryPayload(c) ==
  IF c % 2 = 1 THEN pickle_dumps(RendezvousState)
  ELSE pickle_dumps([round |-> 1, closed |-> TRUE,
                     participants |-> <<2, 1>>, wait_list |-> {3}])

InitRetry ==
  /\ MasterInit
  /\ pc = [c \in RetryWriters |-> "idle"]
  /\ op = [c \in RetryWriters |-> NoOp]
  /\ loc = [c \in RetryWriters |-> NoLoc]
  /\ res = [c \in RetryWriters |-> Pending]
  /\ calls = 0
  /\ log = <<>>
  /\ h = [c \in RetryWriters |-> NoHist]
  /\ backend = [c \in RetryWriters |-> DlroverRendezvousBackend(JobRunId, KeyPrefix)]
  /\ store = <<>>

\* Writer c's write has been accepted and reported to it.
Committed(c) == res[c].kind = "triple" /\ res[c].succeeded

\* The token of writer c's last result; None when that result has none.
retry_token(c) ==
  IF res[c].kind \in {"pair", "triple"} THEN IntToken(res[c].token) ELSE NoneToken

\* A writer that has not called anything yet calls get_state().
retry_get_state(c) ==
  /\ pc[c] = "idle" /\ op[c].name = "none"
  /\ calls' = calls
  /\ get_state_enter(c)

\* A writer whose write is not committed calls set_state with its state and
\* the token of its last result.
retry_set_state(c) ==
  /\ pc[c] = "idle" /\ ~Committed(c)
  /\ res[c].kind \in {"pending", "None", "pair", "triple"}
  /\ calls' = calls
  /\ set_state_enter(c, RetryPayload(c), retry_token(c))

RetryStep(c) ==
  \/ retry_get_state(c)
  \/ get_state_rpc(c)
  \/ retry_set_state(c)
  \/ set_state_cas(c)
  \/ set_state_read(c)

NextRetry == \E c \in RetryWriters : RetryStep(c)

\* Every writer keeps running and every request it sends is answered.
SpecRetry ==
  /\ InitRetry /\ [][NextRetry]_vars
  /\ \A c \in RetryWriters : WF_vars(RetryStep(c))

\* ================================================================ claims
\* The value the master held after n accepted writes.
ValueAt(n) == IF n = 0 THEN EmptyMarker ELSE log[n]

\* Caller c's last call was `name` and has ended.
Ended(c, name) == op[c].name = name /\ pc[c] = "idle" /\ res[c].kind # "pending"

\* Caller c's last call has ended by returning (not by raising).
Returned(c, name) == Ended(c, name) /\ res[c].kind \in {"None", "pair", "triple"}

\* Token argument `token` denotes the integer t.
Denotes(token, t) ==
  \/ token.kind = "int" /\ token.ival = t
  \/ token.kind = "none" /\ t = 0
  \/ token.kind = "str" /\ token.sval = <<>> /\ t = 0
  \/ /\ token.kind = "str" /\ token.sval # <<>>
     /\ \A i \in 1..Len(token.sval) : token.sval[i] \in 0..9
     /\ DigitsValue(token.sval) = t

\* Token argument is present and is not an integer.
NotAnInteger(token) ==
  token.kind = "str" /\ \E i \in 1..Len(token.sval) : token.sval[i] \notin 0..9

\* ---------------------------------------------------------------- C1
\* Callers a and b both called set_state with the same token t, both calls
\* returned, and the write that superseded t is one of the two.
Raced(a, b, t) ==
  /\ a # b
  /\ Returned(a, "set_state") /\ Returned(b, "set_state")
  /\ Denotes(op[a].token, t) /\ Denotes(op[b].token, t)
  /\ h[a].nCas = 1 /\ h[b].nCas = 1
  /\ h[a].applied \/ h[b].applied

\* C1: when two callers call set_state with the same token t and nobody else
\* supersedes t, exactly one call returns succeeded = true, the other returns
\* no success, and the state returned to the loser, when its read is served
\* before any further write, is the value the winner committed.
C1_CasExclusivity ==
  \A a, b \in Callers : \A t \in 0..(MaxTok + 1) :
    Raced(a, b, t) /\ h[a].applied =>
      /\ res[a].kind = "triple" /\ res[a].succeeded
      /\ res[a].state = op[a].state
      /\ ~h[b].applied
      /\ ~(res[b].kind = "triple" /\ res[b].succeeded)
      /\ h[b].nRead = 1
      /\ h[b].readAt = t + 1 =>
           /\ res[b].kind = "triple" /\ ~res[b].succeeded
           /\ res[b].state = op[a].state
           /\ res[b].token = t + 1

C1_Witness ==
  \E a, b \in Callers : \E t \in 0..(MaxTok + 1) :
    /\ Raced(a, b, t) /\ h[a].applied
    /\ op[a].state # op[b].state
    /\ res[b].kind = "triple" /\ h[b].readAt = t + 1

\* ---------------------------------------------------------------- C2
\* C2: an accepted set_state returns (state, newToken, true), newToken being
\* the key's token after the write (what the master holds while no other
\* write has been accepted since).
C2_ReturnsNewToken ==
  \A c \in Callers :
    Returned(c, "set_state") /\ h[c].applied /\ svcToken = loc[c].token + 1 =>
      res[c] = Triple(op[c].state, svcToken, TRUE)

\* ---------------------------------------------------------------- C3
\* A get_state whose read was served right after the first write, a
\* set_state(s, None) on the never-written key, returns the bytes s.
C3_Get ==
  \A g, f \in Callers :
    /\ Returned(g, "get_state") /\ h[g].readAt = 1
    /\ op[f].name = "set_state" /\ op[f].token = NoneToken
    /\ h[f].applied /\ h[f].sent.token = 0
    => res[g] = Pair(op[f].state, res[g].token)

\* A set_state presenting the token a get_state returned, whose
\* compare-and-swap is answered while no write has been accepted since that
\* get_state's read, is accepted.
C3_Set ==
  \A g, w \in Callers :
    /\ Returned(g, "get_state") /\ res[g].kind = "pair"
    /\ h[g].readAt = Len(log)
    /\ op[w].name = "set_state" /\ op[w].token = IntToken(res[g].token)
    /\ pc[w] = "cas_rpc" /\ pc'[w] # "cas_rpc" /\ h'[w].failed = "none"
    => /\ res'[w] = Triple(op[w].state, res'[w].token, TRUE)
       /\ svcVal' = op[w].state
       /\ svcToken' = svcToken + 1

\* C3: token round-trip.  After set_state(s, None) on a never-written key, a
\* get_state with no write in between returns s and a token with which the
\* next set_state, again with no write in between, is accepted.
C3_TokenRoundTrip == []C3_Get /\ [][C3_Set]_vars

C3_Witness ==
  \E g, w \in Callers :
    /\ Returned(g, "get_state") /\ h[g].readAt = 1
    /\ res[g] = Pair(log[1], 1)
    /\ Returned(w, "set_state") /\ op[w].token = IntToken(res[g].token)
    /\ h[w].applied /\ res[w].succeeded
    /\ Len(log) = 2 /\ svcVal = op[w].state

\* ---------------------------------------------------------------- C4
\* Caller c's last call was a set_state with a token that is no integer, and
\* it has ended.
ProbeEnded(c) == Ended(c, "set_state") /\ NotAnInteger(op[c].token)

\* C4 as stated: set_state with a token that is not an integer issues no
\* compare-and-swap, leaves the key as it is, and (its read not failing in
\* transport) returns the stored state and its token with succeeded = false.
C4_InvalidTokenReturnsState ==
  \A c \in Callers :
    ProbeEnded(c) /\ h[c].failed = "none" =>
      /\ h[c].nCas = 0 /\ ~h[c].applied
      /\ res[c].kind = "triple" /\ ~res[c].succeeded
      /\ res[c].state = ValueAt(h[c].readAt)
      /\ res[c].token = h[c].readAt

\* C4 amended: set_state with a token that is not an integer issues no
\* compare-and-swap and exactly one read; it returns the stored state and its
\* token with succeeded = false when the read finds a state, None when the
\* read finds the empty marker, and raises the connection error when the read
\* fails in transport.
C4_InvalidTokenProbe ==
  \A c \in Callers :
    ProbeEnded(c) =>
      /\ h[c].nCas = 0 /\ ~h[c].applied
      /\ h[c].nRead = 1
      /\ \/ h[c].failed = "read" /\ res[c] = RendezvousConnectionError
         \/ /\ h[c].failed = "none" /\ h[c].readAt = 0
            /\ res[c] = None
         \/ /\ h[c].failed = "none" /\ h[c].readAt >= 1
            /\ res[c] = Triple(log[h[c].readAt], h[c].readAt, FALSE)

C4_Witness ==
  \E c \in Callers :
    /\ ProbeEnded(c)
    /\ h[c].readAt >= 1
    /\ res[c] = Triple(svcVal, svcToken, FALSE)

\* ---------------------------------------------------------------- C5
\* The key changes only by the compare-and-swap of a set_state whose token
\* denotes the key's current token, to that call's payload and the next token.
C5_Step ==
  (svcVal' # svcVal \/ svcToken' # svcToken \/ log' # log) =>
    \E c \in Callers :
      /\ op[c].name = "set_state" /\ pc[c] = "cas_rpc" /\ pc'[c] # "cas_rpc"
      /\ Denotes(op[c].token, svcToken)
      /\ svcVal' = op[c].state
      /\ svcToken' = svcToken + 1
      /\ log' = Append(log, op[c].state)
      /\ h'[c].applied

\* The committed value is the payload of the last accepted write, one write
\* per token generation.
C5_Committed ==
  /\ svcToken = Len(log)
  /\ svcVal = ValueAt(Len(log))
  /\ \A a, b \in Callers :
       a # b /\ h[a].applied /\ h[b].applied => h[a].sent.token # h[b].sent.token
  /\ \A c \in Callers :
       h[c].applied =>
         /\ Denotes(op[c].token, h[c].sent.token)
         /\ h[c].sent.token < Len(log)
         /\ log[h[c].sent.token + 1] = op[c].state

\* C5: a set_state whose token is superseded never changes the committed
\* value or token; each token generation has at most one accepted write, and
\* the committed value is the payload of the latest one.
C5_SupersededTokenSafe == []C5_Committed /\ [][C5_Step]_vars

\* A set_state that presented a superseded token has been rejected, the
\* value committed by the accepted write of the latest generation stands.
C5_Witness ==
  \E a, b \in Callers :
    /\ a # b
    /\ Returned(a, "set_state") /\ h[a].applied /\ h[a].sent.token = svcToken - 1
    /\ Returned(b, "set_state") /\ h[b].nCas = 1 /\ ~h[b].applied
    /\ h[b].sent.token < svcToken /\ h[b].readAt = svcToken
    /\ op[b].state # op[a].state
    /\ svcVal = op[a].state

\* ---------------------------------------------------------------- C6
\* C6: get_state returns None exactly when the value the master returns is
\* the empty marker: always on a never-written key, never once a write has
\* been accepted; it returns no error but the connection error.
C6_EmptySession ==
  /\ \A i \in 1..Len(log) : log[i] # EmptyMarker
  /\ \A c \in Callers :
       Ended(c, "get_state") /\ h[c].failed = "none" =>
         /\ res[c].kind \in {"None", "pair"}
         /\ res[c] = None <=> ValueAt(h[c].readAt) = EmptyMarker
         /\ h[c].readAt = 0 => res[c] = None
         /\ h[c].readAt >= 1 => /\ res[c].kind = "pair"
                                /\ res[c].state # <<>>

\* One get_state found the key never written, another one read it after a
\* write had been accepted.
C6_Witness ==
  \E a, b \in Callers :
    /\ Ended(a, "get_state") /\ h[a].readAt = 0 /\ res[a] = None
    /\ Ended(b, "get_state") /\ h[b].readAt >= 1 /\ res[b].kind = "pair"

\* ---------------------------------------------------------------- C7
\* C7: a get_state whose remote read failed in transport raises the
\* connection error: it returns neither None nor a (bytes, token) pair; it
\* has issued no write.
C7_ReadFailureRaises ==
  \A c \in Callers :
    op[c].name = "get_state" /\ h[c].failed = "read" =>
      /\ pc[c] = "idle"
      /\ res[c] = RendezvousConnectionError
      /\ h[c].nRead = 1 /\ h[c].nCas = 0 /\ ~h[c].applied

\* The read failed on a key that holds a state: the outage is not reported as
\* "no state".
C7_Witness ==
  \E c \in Callers :
    /\ op[c].name = "get_state" /\ h[c].failed = "read"
    /\ res[c].kind = "RendezvousConnectionError"
    /\ svcToken >= 1

\* ---------------------------------------------------------------- C8
\* C8: a set_state whose compare-and-swap failed in transport raises the
\* connection error, having issued that one compare-and-swap and no read; it
\* reports neither succeeded = true nor succeeded = false.
C8_WriteFailureRaises ==
  \A c \in Callers :
    op[c].name = "set_state" /\ h[c].failed = "cas" =>
      /\ pc[c] = "idle"
      /\ res[c] = RendezvousConnectionError
      /\ h[c].nCas = 1 /\ h[c].nRead = 0

\* Indeterminate: of two failed writes the master has applied one and not the
\* other.
C8_Witness ==
  \E a, b \in Callers :
    /\ op[a].name = "set_state" /\ h[a].failed = "cas" /\ h[a].applied
    /\ svcVal = op[a].state
    /\ op[b].name = "set_state" /\ h[b].failed = "cas" /\ ~h[b].applied
    /\ res[a] = RendezvousConnectionError /\ res[b] = RendezvousConnectionError

\* ---------------------------------------------------------------- C9
\* Caller c's set_state had its compare-and-swap rejected and has ended with
\* no transport failure.
Rejected(c) ==
  /\ op[c].name = "set_state" /\ pc[c] = "idle"
  /\ h[c].nCas = 1 /\ ~h[c].applied /\ h[c].failed = "none"

\* C9 as stated: a set_state whose compare-and-swap is rejected, its read not
\* failing, returns the state and token stored at that read with
\* succeeded = false.
C9_ConflictReturnsState ==
  \A c \in Callers :
    Rejected(c) =>
      /\ h[c].nRead = 1
      /\ res[c] = Triple(ValueAt(h[c].readAt), h[c].readAt, FALSE)

\* C9 amended: a set_state whose compare-and-swap is rejected, its read not
\* failing, does not raise; it returns the state and token stored at that
\* read with succeeded = false, or None when that read finds the empty marker.
C9_ConflictIsValue ==
  \A c \in Callers :
    Rejected(c) =>
      /\ h[c].nRead = 1
      /\ \/ h[c].readAt = 0 /\ res[c] = None
         \/ /\ h[c].readAt >= 1
            /\ res[c] = Triple(log[h[c].readAt], h[c].readAt, FALSE)

C9_Witness ==
  \E c \in Callers :
    /\ Rejected(c)
    /\ res[c] = Triple(svcVal, svcToken, FALSE)
    /\ res[c].state # op[c].state

\* ---------------------------------------------------------------- C10
\* Every get_state issues exactly one remote read and no write, and what it
\* returns is the value and token the master held when it served that read.
C10_Fresh ==
  \A c \in Callers :
    Ended(c, "get_state") =>
      /\ h[c].nRead = 1 /\ h[c].nCas = 0
      /\ h[c].failed = "none" =>
           /\ h[c].readAt \in 0..Len(log)
           /\ h[c].readAt = 0 => res[c] = None
           /\ h[c].readAt >= 1 => res[c] = Pair(log[h[c].readAt], h[c].readAt)

\* Accepted writes are never lost, and a get_state that returns hands back
\* the last write accepted up to its return: each write accepted before the
\* call began is reflected, by itself or by a later one.
C10_Step ==
  /\ Len(log') >= Len(log) /\ SubSeq(log', 1, Len(log)) = log
  /\ \A c \in Callers :
       /\ op[c].name = "get_state" /\ pc[c] = "get_rpc" /\ pc'[c] = "idle"
       /\ h'[c].failed = "none"
       => /\ op'[c] = op[c]
          /\ res'[c] = IF log = <<>> THEN None
                                   ELSE Pair(log[Len(log)], Len(log))
          /\ svcToken' = svcToken /\ svcVal' = svcVal

\* C10: no stale reads.  The backend keeps no copy of the state between
\* calls: every get_state issues exactly one remote read, and its result is
\* the value and token of the last write accepted when that read is served,
\* never of an earlier one.
C10_NoStaleRead == []C10_Fresh /\ [][C10_Step]_vars

\* A get_state read the key after two writes and returned the second.
C10_Witness ==
  \E c \in Callers :
    /\ Ended(c, "get_state") /\ h[c].readAt = 2
    /\ log[1] # log[2]
    /\ res[c] = Pair(log[2], 2)

\* ---------------------------------------------------------------- C11
\* `key` is exactly `key_prefix` followed by `run_id`.
PrefixThenId(key, key_prefix, run_id) ==
  /\ Len(key) = Len(key_prefix) + Len(run_id)
  /\ \A i \in 1..Len(key) :
       key[i] = IF i <= Len(key_prefix) THEN key_prefix[i]
                ELSE run_id[i - Len(key_prefix)]

\* The master's entry for prefix + identifier.
EntryOf(key_prefix, run_id) == key_writes(key_prefix \o run_id)

\* A construction: with an empty run id it raises and leaves no backend,
\* else the backend's key is the prefix followed by the run id; either way
\* nothing is read from or written to the master.
C11_Construct ==
  \A c \in Callers :
    backend[c].status = "none" /\ backend'[c].status # "none" =>
      /\ store' = store /\ res' = res /\ calls' = calls
      /\ IF backend'[c].run_id = <<>>
           THEN backend'[c].status = "ValueError" /\ backend'[c].key = <<>>
           ELSE /\ backend'[c].status = "built"
                /\ PrefixThenId(backend'[c].key, backend'[c].key_prefix,
                                backend'[c].run_id)

\* A caller whose construction failed has no backend to call: it has no
\* result and no write.  Every write of a caller is in the entry of its
\* prefix and run id, and every state it was handed is a write in that
\* entry, under the token of that write.
C11_SameEntry ==
  \A c \in Callers :
    /\ backend[c].status # "built" =>
         /\ res[c] = Pending
         /\ \A k \in DOMAIN store : \A i \in 1..Len(store[k]) : store[k][i].by # c
    /\ backend[c].status = "built" =>
         LET e == EntryOf(backend[c].key_prefix, backend[c].run_id) IN
         /\ \A k \in DOMAIN store : \A i \in 1..Len(store[k]) :
              store[k][i].by = c => /\ i <= Len(e)
                                    /\ e[i] = store[k][i]
                                    /\ PrefixThenId(k, backend[c].key_prefix,
                                                    backend[c].run_id)
         /\ res[c].kind = "pair" \/ (res[c].kind = "triple" /\ ~res[c].succeeded) =>
              /\ res[c].token \in 1..Len(e)
              /\ e[res[c].token].state = res[c].state

\* C11: construction with an empty run identifier fails, creates no backend
\* and makes no remote call; with a non-empty identifier the backend's key is
\* exactly the prefix followed by the identifier, so that two backends built
\* with the same prefix and identifier read and write the same entry.
C11_Construction == []C11_SameEntry /\ [][C11_Construct]_vars

\* Two callers built their backends with the same prefix and run id, and one
\* of the two was handed the state the other wrote.
C11_Witness ==
  \E a, b \in Callers :
    /\ a # b
    /\ backend[a].status = "built" /\ backend[b].status = "built"
    /\ backend[a].run_id = backend[b].run_id
    /\ backend[a].key_prefix = backend[b].key_prefix
    /\ res[b].kind = "pair"
    /\ LET e == EntryOf(backend[a].key_prefix, backend[a].run_id) IN
         /\ res[b].token = Len(e)
         /\ e[Len(e)].by = a
         /\ e[Len(e)].state = res[b].state

\* ---------------------------------------------------------------- C12
\* No token: None, 0 or the empty string.
Falsy(token) ==
  \/ token.kind = "none"
  \/ token.kind = "int" /\ token.ival = 0
  \/ token.kind = "str" /\ token.sval = <<>>

\* The bytes are the serialization of a rendezvous state.
WellFormed(state) == \E st \in SampleStates : state = pickle_dumps(st)

\* C12: set_state(state, token) with no token (None, 0, "") issues the
\* compare-and-swap, and issues it with the expected token 0; the write is
\* accepted when the key was never written (it is then the key's first
\* write), and when the key holds a state under a non-zero token nothing is
\* written and that state is returned with succeeded = false.
C12_AbsentToken ==
  \A c \in Callers :
    op[c].name = "set_state" /\ Falsy(op[c].token) /\ WellFormed(op[c].state) =>
      /\ pc[c] = "read_rpc" \/ Ended(c, "set_state") => h[c].nCas = 1
      /\ h[c].nCas = 1 => h[c].sent.token = 0
      /\ h[c].nCas = 1 /\ h[c].failed = "none" /\ ~h[c].applied => Len(log) >= 1
      /\ h[c].applied => log[1] = op[c].state
      /\ Returned(c, "set_state") =>
           IF h[c].applied
             THEN /\ res[c].kind = "triple" /\ res[c].succeeded
                  /\ res[c].state = op[c].state
             ELSE /\ res[c].kind = "triple" /\ ~res[c].succeeded
                  /\ h[c].readAt >= 1
                  /\ res[c].token = h[c].readAt
                  /\ res[c].state = log[h[c].readAt]

\* set_state(s, "") was accepted on the never-written key, and set_state(s2, 0)
\* after it was handed the committed state with succeeded = false.
C12_Witness ==
  \E a, b \in Callers :
    /\ Returned(a, "set_state") /\ op[a].token = StrToken(<<>>) /\ h[a].applied
    /\ Returned(b, "set_state") /\ op[b].token = IntToken(0) /\ ~h[b].applied
    /\ op[a].state # op[b].state
    /\ res[b] = Triple(op[a].state, 1, FALSE)
    /\ log = <<op[a].state>>

\* ---------------------------------------------------------------- C13
\* C13: a set_state call issues at most one compare-and-swap and at most one
\* read; it reads only after its compare-and-swap was rejected, or instead of
\* the compare-and-swap when its token is no integer, and never after its
\* write was accepted.  A get_state call issues exactly one read and no
\* compare-and-swap.
C13_NoRetry ==
  \A c \in Callers :
    /\ h[c].nCas <= 1 /\ h[c].nRead <= 1
    /\ op[c].name = "set_state" =>
         /\ h[c].nRead = 1 \/ pc[c] = "read_rpc" =>
              \/ h[c].nCas = 1 /\ ~h[c].applied /\ h[c].failed # "cas"
              \/ h[c].nCas = 0 /\ NotAnInteger(op[c].token)
         /\ h[c].applied => h[c].nRead = 0 /\ pc[c] = "idle"
         /\ NotAnInteger(op[c].token) => h[c].nCas = 0
         /\ Ended(c, "set_state") => pc[c] = "idle" /\ h[c].nCas + h[c].nRead <= 2
    /\ op[c].name = "get_state" =>
         /\ h[c].nCas = 0 /\ ~h[c].applied
         /\ Ended(c, "get_state") => h[c].nRead = 1
         /\ pc[c] = "get_rpc" => h[c].nRead = 0

\* One set_state read once after its rejected compare-and-swap, another read
\* once in place of the compare-and-swap.
C13_Witness ==
  \E a, b \in Callers :
    /\ Returned(a, "set_state") /\ h[a].nCas = 1 /\ h[a].nRead = 1
    /\ Returned(b, "set_state") /\ h[b].nCas = 0 /\ h[b].nRead = 1
    /\ NotAnInteger(op[b].token)

\* ---------------------------------------------------------------- C14
\* C14: for every well-formed state, the bytes sent in the compare-and-swap
\* and the bytes returned on success are the bytes passed to set_state, and
\* the two hints sent are the number of participants and the number of
\* waiting nodes of the state these bytes encode.
C14_PayloadVerbatim ==
  \A c \in Callers : \A st \in SampleStates :
    op[c].name = "set_state" /\ op[c].state = pickle_dumps(st) =>
      /\ h[c].nCas = 1 =>
           /\ h[c].sent.state = op[c].state
           /\ h[c].sent.participant_num = Len(st.participants)
           /\ h[c].sent.wait_num = Cardinality(st.wait_list)
      /\ h[c].applied => log[h[c].sent.token + 1] = op[c].state
      /\ Returned(c, "set_state") /\ res[c].kind = "triple" /\ res[c].succeeded =>
           res[c].state = op[c].state

\* An accepted set_state of a state with two participants and one waiting
\* node.
C14_Witness ==
  \E c \in Callers : \E st \in SampleStates :
    /\ Returned(c, "set_state") /\ op[c].state = pickle_dumps(st)
    /\ Len(st.participants) = 2 /\ Cardinality(st.wait_list) = 1
    /\ h[c].applied
    /\ h[c].sent.participant_num = 2 /\ h[c].sent.wait_num = 1
    /\ res[c].state = op[c].state /\ svcVal = op[c].state

\* ---------------------------------------------------------------- C15
\* Callers a and b are both about to send their compare-and-swap, with the
\* same token t and different well-formed states.
SameTokenOtherPayload(a, b, t) ==
  /\ a # b
  /\ pc[a] = "cas_rpc" /\ pc[b] = "cas_rpc"
  /\ Denotes(op[a].token, t) /\ Denotes(op[b].token, t)
  /\ WellFormed(op[a].state) /\ WellFormed(op[b].state)
  /\ op[a].state # op[b].state

\* C15: two runs of set_state from the same stored value and token, with the
\* same token and different well-formed states, end with the same succeeded
\* flag and the same returned token; the write is accepted exactly when the
\* token is the key's token, whatever the state contains.
C15_PayloadIndependence ==
  \A a, b \in Callers : \A t \in 0..(MaxTok + 1) :
    SameTokenOtherPayload(a, b, t) =>
      /\ set_state_alone(a).kind = set_state_alone(b).kind
      /\ set_state_alone(a).succeeded = set_state_alone(b).succeeded
      /\ set_state_alone(a).token = set_state_alone(b).token
      /\ CasReply(a)[3] = CasReply(b)[3]
      /\ CasReply(a)[3] <=> (t = svcToken)

\* Both runs are possible from a state where the token is the key's token
\* and the two states differ in round, closed, participants and wait_list.
C15_Witness ==
  \E a, b \in Callers :
    /\ SameTokenOtherPayload(a, b, svcToken)
    /\ op[a].token # op[b].token
    /\ set_state_alone(a).succeeded /\ set_state_alone(b).succeeded

\* ---------------------------------------------------------------- C16
\* The step that hands caller c a (bytes, token) pair, from get_state or in
\* a succeeded = false result of set_state, is a step of c's running call,
\* and the pair is the value and the token the master holds together at
\* that step: the value of the write that produced this token.
C16_Step ==
  \A c \in Callers :
    /\ res'[c] # res[c]
    /\ \/ res'[c].kind = "pair"
       \/ res'[c].kind = "triple" /\ ~res'[c].succeeded
    => /\ pc[c] \in {"get_rpc", "read_rpc"} /\ pc'[c] = "idle"
       /\ res'[c].state = svcVal /\ res'[c].token = svcToken
       /\ svcToken >= 1 /\ svcVal = log[svcToken]
       /\ svcVal' = svcVal /\ svcToken' = svcToken

\* A pair a caller holds is one entry of the history of accepted writes
\* with its own token, whatever was written since.
C16_Held ==
  \A c \in Callers :
    \/ res[c].kind = "pair"
    \/ res[c].kind = "triple" /\ ~res[c].succeeded
    => /\ res[c].token \in 1..Len(log)
       /\ res[c].state = log[res[c].token]
       /\ res[c].token = h[c].readAt

\* C16: the (bytes, token) pair of a succeeded = false result of set_state,
\* and the pair get_state returns, were held together by the master at one
\* instant during the call; a result never pairs the value of one version
\* with the token of another.
C16_ConsistentSnapshot == []C16_Held /\ [][C16_Step]_vars

\* A compare-and-swap with token 1 was rejected on the never-written key,
\* another caller's first write was accepted before the follow-up read, and
\* the result pairs that write with its token.
C16_Witness ==
  \E c, w \in Callers :
    /\ Rejected(c) /\ h[c].sent.token = 1 /\ h[c].readAt = 1
    /\ h[w].applied /\ h[w].sent.token = 0
    /\ op[w].state # op[c].state
    /\ res[c] = Triple(op[w].state, 1, FALSE)

\* ---------------------------------------------------------------- C17
\* C17: a set_state that presents a token handed out earlier by get_state or
\* by a succeeded = false result, and whose write is rejected, returns a
\* succeeded = false result whose token is greater than the token presented.
C17_ConflictIsNewer ==
  \A c \in RetryWriters : \A t \in 1..(NumCallers + 1) :
    Rejected(c) /\ op[c].token = IntToken(t) =>
      /\ res[c].kind = "triple" /\ ~res[c].succeeded
      /\ res[c].token > t
      /\ res[c].token = h[c].readAt /\ res[c].state = log[res[c].token]

\* A writer lost with token 1, which a conflict result had handed to it, and
\* got token 2 back.
C17_Witness ==
  \E c \in RetryWriters :
    /\ Rejected(c) /\ op[c].token = IntToken(1)
    /\ res[c].kind = "triple" /\ ~res[c].succeeded /\ res[c].token = 2

\* ---------------------------------------------------------------- C18
\* Every call a writer has started ends.
C18_CallsEnd == \A c \in RetryWriters : (pc[c] # "idle") ~> (pc[c] = "idle")

\* A compare-and-swap is rejected only when a write the writer had not seen
\* was accepted: of the writers racing with one token, one is accepted.
C18_RoundHasWinner ==
  \A c \in RetryWriters :
    pc[c] = "read_rpc" /\ h[c].nCas = 1 => Len(log) > h[c].sent.token

\* C18: writers that each want to commit one write and that retry set_state
\* with the token of each succeeded = false result, every writer and the
\* master being weakly fair and no remote call failing in transport, all get
\* their write accepted in the end; every set_state call ends, and a writer
\* loses a round only to a write that was accepted.
C18_RetryCommits ==
  /\ \A c \in RetryWriters : <>Committed(c)
  /\ C18_CallsEnd
  /\ []C18_RoundHasWinner

\* All writers have committed, one of them after losing with token 1.
C18_Witness ==
  /\ \A c \in RetryWriters : Committed(c)
  /\ Len(log) = NumCallers + 1
  /\ \E c \in RetryWriters : op[c].token = IntToken(2) /\ h[c].sent.token = 2

\* ---------------------------------------------------------------- C19
\* C19: set_state returns None exactly when its write was not accepted and
\* its follow-up read found the empty marker; it never returns None after an
\* accepted write, and whatever else it returns is a triple whose flag is
\* true exactly when the write of this call was accepted.
C19_NoneOrTriple ==
  \A c \in Callers :
    /\ Ended(c, "set_state") /\ h[c].failed = "none" =>
         (res[c] = None <=>
            ~h[c].applied /\ h[c].nRead = 1 /\ h[c].readAt = 0)
    /\ Ended(c, "set_state") /\ h[c].applied => res[c] # None
    /\ Returned(c, "set_state") /\ res[c] # None =>
         /\ res[c].kind = "triple"
         /\ res[c].succeeded <=> h[c].applied

\* One set_state, with a token that is no integer, returned None on the
\* never-written key; another returned a triple with succeeded = true after.
C19_Witness ==
  \E a, b \in Callers :
    /\ Returned(a, "set_state") /\ res[a] = None
    /\ h[a].nCas = 0 /\ h[a].readAt = 0
    /\ Returned(b, "set_state") /\ res[b].kind = "triple"
    /\ res[b].succeeded /\ h[b].applied
====
